---- MODULE Spec2Model ----
(***************************************************************************)
(* Client-side session controller of the Viet Su Tri chat page             *)
(* (src/static/app.js): the two message threads, the rendered message      *)
(* list, the staged PDF files, the single typing/in-flight flag, the       *)
(* pending confirmation action and the menu listener.                      *)
(*                                                                         *)
(* The page is single threaded: every handler runs to completion.  The     *)
(* only suspension points are the two awaits of sendMessage (the fetch     *)
(* and response.json()), so one action is one handler, or one resumption   *)
(* of sendMessage after an await settles.                                  *)
(***************************************************************************)
EXTENDS Integers, Sequences, FiniteSets, TLC

VARIABLES
    isTyping,            \* app.js:5
    currentMode,         \* app.js:6
    uploadedPDFs,        \* app.js:7
    menuOpen,            \* app.js:8
    pendingClearAction,  \* app.js:10
    historyMessages,     \* app.js:13
    pdfMessages,         \* app.js:14
    chatMessages,        \* children of #chatMessages created by the script
    clickListener,       \* document 'click' listener closeMenuOnClickOutside
    requests,            \* suspended sendMessage calls (awaiting the network)
    lastEvent,           \* observation: the handler that ran last and how it ended
    toastLog,            \* observation: the toasts shown by the handler that ran last
    overwritten,         \* observation: the actions replaced in pendingClearAction
                         \* since it was last null
    nEvents,             \* amount of user input so far (bounds the exploration)
    toastElements,       \* the elements showToast creates, in call order, with
                         \* the stage their timers have brought them to
    formatInput,         \* a text handed to formatMessage
    formatOutput,        \* what formatMessage returned for it
    refInput,            \* a sender and a sourceUrls handed to addMessage
    refOutput            \* the reference block addMessage built for them

\* The session: what the handlers read and write, and what is observed of them.
sessionVars == << isTyping, currentMode, uploadedPDFs, menuOpen, pendingClearAction,
                  historyMessages, pdfMessages, chatMessages, clickListener,
                  requests, lastEvent, toastLog, overwritten, nEvents >>

vars == << isTyping, currentMode, uploadedPDFs, menuOpen, pendingClearAction,
           historyMessages, pdfMessages, chatMessages, clickListener,
           requests, lastEvent, toastLog, overwritten, nEvents,
           toastElements, formatInput, formatOutput, refInput, refOutput >>

----------------------------------------------------------------------------
(* Bounds *)

\* User input explored: one per user event, one per file of a batch.
MaxEvents == 4

\* The same for the behaviours explored under fairness.
MaxLiveEvents == 3

\* Calls of showToast whose elements are followed.
MaxToasts == 3

\* Length of the texts formatMessage is applied to.
MaxTextLen == 4

\* Length of the sourceUrls lists a reference block is built for.
MaxRefs == 2

----------------------------------------------------------------------------
(* Values *)

\* JavaScript undefined, for a field that holds a string or an array otherwise.
Undefined == << "undefined" >>

\* JavaScript null for the sourceUrls parameter of addMessage.
Null == << "null" >>

\* Any argument of switchMode that is neither 'history' nor 'pdf'.
OtherMode == "other"

ModeValues == { "history", "pdf", OtherMode }

Whitespace == { " ", "\n" }

\* What the user may have typed into #messageInput (or passed to sendSampleQuery).
InputTexts == { << >>, << " " >>, << "q" >>, << " ", "q", " " >> }

\* app.js:152 (the text is kept as one chunk without markup characters)
ProcessingErrorText == << "Xin loi, da co loi xay ra khi xu ly cau hoi cua ban. Vui long thu lai." >>

\* app.js:158
ConnectionErrorText == << "Xin loi, khong the ket noi voi server. Vui long kiem tra ket noi mang va thu lai." >>

Url1 == "http://example.com/x"

\* Bodies a 2xx response can parse to: JSON null, success:true with an answer
\* (source_urls absent, empty or not), success:true without answer, success:false.
JsonNull == [ isNull |-> TRUE, success |-> FALSE, answer |-> Undefined, source_urls |-> Undefined ]

DataValues ==
    { JsonNull,
      [ isNull |-> FALSE, success |-> FALSE, answer |-> Undefined, source_urls |-> Undefined ],
      [ isNull |-> FALSE, success |-> TRUE, answer |-> Undefined, source_urls |-> << >> ] }
    \cup { [ isNull |-> FALSE, success |-> TRUE, answer |-> << "A" >>, source_urls |-> u ] :
             u \in { Undefined, << >>, << Url1 >> } }

\* app.js:492
SizeLimit == 10 * 1024 * 1024

PdfType == "application/pdf"

\* Files the user can select or drop.
Candidates ==
    { [ name |-> "a.pdf", size |-> 1, type |-> PdfType ],
      [ name |-> "a.pdf", size |-> SizeLimit, type |-> PdfType ],
      [ name |-> "b.pdf", size |-> SizeLimit + 1, type |-> PdfType ],
      [ name |-> "c.txt", size |-> SizeLimit + 1, type |-> "text/plain" ],
      [ name |-> "a.pdf", size |-> 1, type |-> "text/plain" ] }

\* The batches of at most n files.
Batches(n) == UNION { [ 1 .. k -> Candidates ] : k \in 0 .. n }

\* What a batch counts for in nEvents.
BatchCost(files) == IF Len(files) = 0 THEN 1 ELSE Len(files)

RemoveIds == 1 .. (Cardinality(Candidates) + 1)

----------------------------------------------------------------------------
(* The session as one record, so that a handler is a composition of the    *)
(* functions it calls.  toasts and resets start empty in every handler:    *)
(* they collect the showToast calls and count the hideTypingIndicator      *)
(* calls of that handler.                                                  *)

Session ==
    [ isTyping |-> isTyping, currentMode |-> currentMode,
      uploadedPDFs |-> uploadedPDFs, menuOpen |-> menuOpen,
      pendingClearAction |-> pendingClearAction,
      historyMessages |-> historyMessages, pdfMessages |-> pdfMessages,
      chatMessages |-> chatMessages, clickListener |-> clickListener,
      overwritten |-> overwritten,
      toasts |-> << >>, resets |-> 0 ]

Commit(t) ==
    /\ isTyping' = t.isTyping
    /\ currentMode' = t.currentMode
    /\ uploadedPDFs' = t.uploadedPDFs
    /\ menuOpen' = t.menuOpen
    /\ pendingClearAction' = t.pendingClearAction
    /\ historyMessages' = t.historyMessages
    /\ pdfMessages' = t.pdfMessages
    /\ chatMessages' = t.chatMessages
    /\ clickListener' = t.clickListener
    /\ toastLog' = t.toasts
    /\ overwritten' = t.overwritten
    /\ UNCHANGED << toastElements, formatInput, formatOutput, refInput, refOutput >>

\* What is observed of a handler: its name, its argument (for confirmAction
\* the actions replaced in the slot before it, for switchMode whether the
\* call repeats the call before it, its mode being the result), how it ended (for
\* confirmAction and hideConfirmation the action they found in the slot) and
\* how many times it called hideTypingIndicator.
Event(op, arg, result, t) ==
    [ op |-> op, arg |-> arg, result |-> result, resets |-> t.resets ]

----------------------------------------------------------------------------
(* Helpers of app.js *)

RECURSIVE TrimStart(_)
TrimStart(s) ==
    IF s # << >> /\ Head(s) \in Whitespace THEN TrimStart(Tail(s)) ELSE s

RECURSIVE TrimEnd(_)
TrimEnd(s) ==
    IF s # << >> /\ s[Len(s)] \in Whitespace
    THEN TrimEnd(SubSeq(s, 1, Len(s) - 1))
    ELSE s

\* String.prototype.trim, app.js:60
Trim(s) == TrimEnd(TrimStart(s))

\* showToast, app.js:238-261: one more toast element
showToast(s, kind, type) ==
    [ s EXCEPT !.toasts = Append(@, [ kind |-> kind, type |-> type ]) ]

\* The reference block of addMessage, app.js:182: the URLs it lists.
RenderedRefs(sender, sourceUrls) ==
    IF sourceUrls # Null /\ sourceUrls # Undefined /\ Len(sourceUrls) > 0 /\ sender = "ai"
    THEN sourceUrls
    ELSE << >>

\* A URL is a string.  The index of the first occurrence of pattern in s at
\* or after from, 0 when there is none.
IndexOf(s, pattern, from) ==
    LET found == { i \in from .. (Len(s) - Len(pattern) + 1) :
                     SubSeq(s, i, i + Len(pattern) - 1) = pattern }
    IN  IF found = { } THEN 0 ELSE CHOOSE i \in found : \A j \in found : i <= j

\* String.prototype.replace(pattern, '') with a string pattern: the first
\* occurrence is removed, wherever it is.
RemoveFirst(s, pattern) ==
    LET i == IndexOf(s, pattern, 1) IN
    IF i = 0 THEN s
    ELSE SubSeq(s, 1, i - 1) \o SubSeq(s, i + Len(pattern), Len(s))

\* The schemes of the URLs the backend cites.
Schemes == { "http://", "https://" }

\* What ends the host of such a URL: the port, the path, the query, the fragment.
HostEnds == { ":", "/", "?", "#" }

\* The index after the scheme of url, 0 when it begins with none.
HostStart(url) ==
    IF \E scheme \in Schemes : Len(url) >= Len(scheme) /\ SubSeq(url, 1, Len(scheme)) = scheme
    THEN Len(CHOOSE scheme \in Schemes :
               Len(url) >= Len(scheme) /\ SubSeq(url, 1, Len(scheme)) = scheme) + 1
    ELSE 0

\* new URL(url).hostname, app.js:221, for a url that parses (lower-case
\* hosts only): from the scheme to the first character that ends the host.
Hostname(url) ==
    LET from == HostStart(url)
        ends == { i \in from .. Len(url) : SubSeq(url, i, i) \in HostEnds }
        to == IF ends = { } THEN Len(url)
              ELSE (CHOOSE i \in ends : \A j \in ends : i <= j) - 1
    IN  SubSeq(url, from, to)

\* new URL(url) throws: no scheme (a relative reference), or no host.
UrlThrows(url) == HostStart(url) = 0 \/ Hostname(url) = ""

\* app.js:224 (kept without diacritics)
Placeholder == "Nguon tham khao"

\* getDomainFromUrl, app.js:219-226
getDomainFromUrl(url) ==
    IF UrlThrows(url) THEN Placeholder ELSE RemoveFirst(Hostname(url), "www.")

\* app.js:182-210: the entries of the reference block, one per URL: index + 1,
\* the href, the label
ReferenceBlock(sender, sourceUrls) ==
    LET urls == RenderedRefs(sender, sourceUrls) IN
    [ k \in 1 .. Len(urls) |->
        [ index |-> (k - 1) + 1, url |-> urls[k], label |-> getDomainFromUrl(urls[k]) ] ]

\* A text is a sequence of chunks: "*", "\n", or a run of other characters.
\* The index of the first "*" at or after i that closes a match of (.*?)\*
\* begun at from: none of from .. j-1 is a newline ("." does not match it).
\* 0 when there is none.
ClosingStar(s, from) ==
    LET closing == { j \in from .. Len(s) :
                       /\ s[j] = "*"
                       /\ \A m \in from .. (j - 1) : s[m] # "\n" }
    IN  IF closing = { } THEN 0 ELSE CHOOSE j \in closing : \A m \in closing : j <= m

\* The same for (.*?)\*\*: the index of the first of the two closing stars.
ClosingStars(s, from) ==
    LET closing == { j \in from .. (Len(s) - 1) :
                       /\ s[j] = "*" /\ s[j + 1] = "*"
                       /\ \A m \in from .. (j - 1) : s[m] # "\n" }
    IN  IF closing = { } THEN 0 ELSE CHOOSE j \in closing : \A m \in closing : j <= m

\* app.js:266: replace(/\*\*(.*?)\*\*/g, '<strong>$1</strong>'): the matches
\* from left to right, each the shortest from where it starts.
RECURSIVE ReplaceBold(_)
ReplaceBold(s) ==
    IF s = << >> THEN << >>
    ELSE IF Len(s) >= 2 /\ s[1] = "*" /\ s[2] = "*" /\ ClosingStars(s, 3) # 0
    THEN LET j == ClosingStars(s, 3) IN
         << "<strong>" >> \o SubSeq(s, 3, j - 1) \o << "</strong>" >>
            \o ReplaceBold(SubSeq(s, j + 2, Len(s)))
    ELSE << Head(s) >> \o ReplaceBold(Tail(s))

\* app.js:267: replace(/\*(.*?)\*/g, '<em>$1</em>')
RECURSIVE ReplaceItalic(_)
ReplaceItalic(s) ==
    IF s = << >> THEN << >>
    ELSE IF s[1] = "*" /\ ClosingStar(s, 2) # 0
    THEN LET j == ClosingStar(s, 2) IN
         << "<em>" >> \o SubSeq(s, 2, j - 1) \o << "</em>" >>
            \o ReplaceItalic(SubSeq(s, j + 1, Len(s)))
    ELSE << Head(s) >> \o ReplaceItalic(Tail(s))

\* app.js:268: replace(/\n/g, '<br>')
ReplaceNewlines(s) ==
    [ k \in 1 .. Len(s) |-> IF s[k] = "\n" THEN "<br>" ELSE s[k] ]

\* The three replacements with the italic one first.
formatMessageItalicFirst(content) ==
    ReplaceNewlines(ReplaceBold(ReplaceItalic(content)))

\* formatMessage, app.js:263-269
formatMessage(content) ==
    ReplaceNewlines(ReplaceItalic(ReplaceBold(content)))

\* The node addMessage builds, app.js:163-215: its text is formatMessage(content)
MessageNode(mode, content, sender, sourceUrls) ==
    [ kind |-> "message", dataMode |-> mode, sender |-> sender,
      content |-> formatMessage(content),
      refs |-> ReferenceBlock(sender, sourceUrls) ]

TypingNode ==
    [ kind |-> "typing", dataMode |-> "none", sender |-> "none",
      content |-> << >>, refs |-> << >> ]

\* formatMessage(content) calls content.replace: a TypeError when content is
\* undefined (app.js:263-269), raised before addMessage appends anything.
AddMessageThrows(content) == content = Undefined

\* addMessage, app.js:162-217 (for a content it does not throw on)
addMessage(s, content, sender, sourceUrls) ==
    [ s EXCEPT !.chatMessages =
        Append(@, MessageNode(s.currentMode, content, sender, sourceUrls)) ]

\* An indicator shown without raising the flag.
showTypingIndicatorNoFlag(s) ==
    [ s EXCEPT !.chatMessages = Append(@, TypingNode) ]

\* showTypingIndicator, app.js:271-278
showTypingIndicator(s) ==
    [ s EXCEPT !.isTyping = TRUE, !.chatMessages = Append(@, TypingNode) ]

\* document.getElementById('activeTypingIndicator').remove(): the first one
RECURSIVE RemoveFirstTyping(_)
RemoveFirstTyping(nodes) ==
    IF nodes = << >> THEN << >>
    ELSE IF Head(nodes).kind = "typing" THEN Tail(nodes)
    ELSE << Head(nodes) >> \o RemoveFirstTyping(Tail(nodes))

\* An indicator taken down with the flag left raised.
hideTypingIndicatorKeepsFlag(s) ==
    [ s EXCEPT !.chatMessages = RemoveFirstTyping(@),
               !.resets = @ + 1 ]

\* hideTypingIndicator, app.js:280-286
hideTypingIndicator(s) ==
    [ s EXCEPT !.isTyping = FALSE,
               !.chatMessages = RemoveFirstTyping(@),
               !.resets = @ + 1 ]

----------------------------------------------------------------------------
(* sendMessage, app.js:59-160 *)

\* The test of app.js:61 without its isTyping half.
SendRefusedNoGuard(s, message) == message = << >>

\* The test of app.js:61 without its empty-message half.
SendRefusedNoTrimCheck(s, message) == s.isTyping

\* app.js:61: if (!message || isTyping) return;
SendRefused(s, message) == message = << >> \/ s.isTyping

\* A send that never looks at the staged files.
NoDocumentsSkipped(s) == FALSE

\* app.js:64
NoDocuments(s) == s.currentMode = "pdf" /\ Len(s.uploadedPDFs) = 0

UserMessage(message) ==
    [ content |-> message, sender |-> "user", sourceUrls |-> Undefined ]

AiMessage(data) ==
    [ content |-> data.answer, sender |-> "ai", sourceUrls |-> data.source_urls ]

\* app.js:146: the thread an answer is pushed to is chosen by currentMode as
\* it is when the response is handled.
AnswerThread(s, r) == s.currentMode

\* A push that skips a message the thread already holds.
PushMessageUnlessPresent(s, mode, msg) ==
    IF mode = "history"
    THEN [ s EXCEPT !.historyMessages =
             IF \E k \in 1 .. Len(@) : @[k] = msg THEN @ ELSE Append(@, msg) ]
    ELSE [ s EXCEPT !.pdfMessages =
             IF \E k \in 1 .. Len(@) : @[k] = msg THEN @ ELSE Append(@, msg) ]

\* app.js:79-83 and 146-150: push to historyMessages in history mode, to
\* pdfMessages otherwise
PushMessage(s, mode, msg) ==
    IF mode = "history"
    THEN [ s EXCEPT !.historyMessages = Append(@, msg) ]
    ELSE [ s EXCEPT !.pdfMessages = Append(@, msg) ]

\* Parts numbered from 1.
FormPartsFromOne(pdfs) ==
    [ k \in 1 .. Len(pdfs) |-> [ part |-> k, name |-> pdfs[k].name, size |-> pdfs[k].size ] ]

\* app.js:115-117: one part pdf_<index> per staged file, in staging order
FormParts(pdfs) ==
    [ k \in 1 .. Len(pdfs) |-> [ part |-> k - 1, name |-> pdfs[k].name, size |-> pdfs[k].size ] ]

\* The suspended call: what the closure and the request hold, and (sentMode,
\* historyAtSend, pdfAtSend, switched, cleared) the history of the session
\* since the call started, kept for the properties only.
Request(s, message) ==
    [ endpoint |-> IF s.currentMode = "history" THEN "/api/rag-chat" ELSE "/api/pdf-rag-chat",
      message |-> message,
      parts |-> IF s.currentMode = "history" THEN << >> ELSE FormParts(s.uploadedPDFs),
      stage |-> "fetch",
      sentMode |-> s.currentMode,
      historyAtSend |-> s.historyMessages,
      pdfAtSend |-> s.pdfMessages,
      switched |-> FALSE,
      cleared |-> FALSE ]

\* Same handler without the release of the guard.
CatchBlockNoRelease(s) ==
    addMessage(s, ConnectionErrorText, "ai", Null)

\* app.js:155-159: the catch block
CatchBlock(s) ==
    addMessage(hideTypingIndicator(s), ConnectionErrorText, "ai", Null)

\* app.js:69-91: from the first addMessage to showTypingIndicator
BeginSend(s, message) ==
    showTypingIndicator(
        PushMessage(addMessage(s, message, "user", Null), s.currentMode,
                    UserMessage(message)))

\* Same branch with the connection text.
BackendFailureSameText(s) ==
    addMessage(s, ConnectionErrorText, "ai", Null)

\* app.js:151-153: success is falsy
BackendFailure(s) ==
    addMessage(s, ProcessingErrorText, "ai", Null)

\* app.js:135-150: success is truthy and addMessage returns
Success(s, r, data) ==
    PushMessage(addMessage(s, data.answer, "ai", data.source_urls),
                AnswerThread(s, r), AiMessage(data))

\* app.js:129-153: the code after await response.json() gave data, with the
\* outcome: "answer", "backendFailure", or a TypeError caught at 155: "nullBody"
\* (data.success of null) or "answerMissing" (addMessage of an undefined answer)
AfterJson(s, r, data) ==
    LET s1 == hideTypingIndicator(s) IN
    IF data.isNull
    THEN [ s |-> CatchBlock(s1), result |-> "nullBody" ]
    ELSE IF data.success /\ AddMessageThrows(data.answer)
    THEN [ s |-> CatchBlock(s1), result |-> "answerMissing" ]
    ELSE IF data.success
    THEN [ s |-> Success(s1, r, data), result |-> "answer" ]
    ELSE [ s |-> BackendFailure(s1), result |-> "backendFailure" ]

\* A removal that leaves the sequence as it is.
RemoveAtKeeps(seq, i) == seq

RemoveAt(seq, i) == SubSeq(seq, 1, i - 1) \o SubSeq(seq, i + 1, Len(seq))

\* The user presses Enter or the send button with text in the input, or
\* clicks a sample query (sendSampleQuery, app.js:294-299, which fills the
\* input and calls sendMessage).
SendWith(text) ==
    LET s == Session
        message == Trim(text)
    IN  /\ nEvents < MaxEvents
        /\ nEvents' = nEvents + 1
        /\ IF SendRefused(s, message)
           THEN /\ Commit(s)
                /\ requests' = requests
                /\ lastEvent' = Event("sendMessage", text,
                                      IF message = << >> THEN "EmptyMessage" ELSE "Busy", s)
           ELSE IF NoDocuments(s)
           THEN LET t == showToast(s, "NoDocuments", "error") IN
                /\ Commit(t)
                /\ requests' = requests
                /\ lastEvent' = Event("sendMessage", text, "NoDocuments", t)
           ELSE IF s.currentMode \in { "history", "pdf" }
           THEN LET t == BeginSend(s, message) IN
                /\ Commit(t)
                /\ requests' = Append(requests, Request(s, message))
                /\ lastEvent' = Event("sendMessage", text, "dispatched", t)
           ELSE \* neither branch of 96/108 assigns response: response.ok throws
                LET t == CatchBlock(BeginSend(s, message)) IN
                /\ Commit(t)
                /\ requests' = requests
                /\ lastEvent' = Event("sendMessage", text, "noEndpoint", t)

SendMessage == \E text \in InputTexts : SendWith(text)

SendSampleQuery == \E query \in InputTexts : SendWith(query)

\* The fetch of request i settles: rejected, or resolved with response.ok
\* false (thrown at 126), or resolved with response.ok true.
FetchSettles ==
    \E i \in 1 .. Len(requests), outcome \in { "reject", "notOk", "ok" } :
        /\ requests[i].stage = "fetch"
        /\ nEvents' = nEvents
        /\ IF outcome = "ok"
           THEN /\ Commit(Session)
                /\ requests' = [ requests EXCEPT ![i].stage = "json" ]
                /\ lastEvent' = Event("fetchResolved", << >>, "ok", Session)
           ELSE LET t == CatchBlock(Session) IN
                /\ Commit(t)
                /\ requests' = RemoveAt(requests, i)
                /\ lastEvent' = Event("response", << >>, "transportFailure", t)

\* response.json() of request i settles: rejected (the body is not JSON) or
\* resolved with data.
JsonSettles ==
    \E i \in 1 .. Len(requests) :
        /\ requests[i].stage = "json"
        /\ nEvents' = nEvents
        /\ requests' = RemoveAt(requests, i)
        /\ \/ LET t == CatchBlock(Session) IN
              /\ Commit(t)
              /\ lastEvent' = Event("response", << >>, "transportFailure", t)
           \/ \E data \in DataValues :
                LET out == AfterJson(Session, requests[i], data) IN
                /\ Commit(out.s)
                /\ lastEvent' = Event("response", << >>, out.result, out.s)

----------------------------------------------------------------------------
(* switchMode and loadMessages, app.js:327-388 *)

\* app.js:385-387: addMessage for every stored message, in order
RECURSIVE RenderAll(_, _)
RenderAll(s, msgs) ==
    IF msgs = << >> THEN s
    ELSE RenderAll(addMessage(s, Head(msgs).content, Head(msgs).sender,
                              Head(msgs).sourceUrls),
                   Tail(msgs))

\* A load that keeps the nodes rendered before.
loadMessagesKeepsNodes(s, mode) ==
    RenderAll(s, IF mode = "history" THEN s.historyMessages ELSE s.pdfMessages)

\* loadMessages, app.js:373-388.  Every node the script appends to
\* #chatMessages has class message-animation (164) and so has the clone of
\* the typing indicator (index.html:481); none has an id containing
\* 'Welcome', so all of them are removed.
loadMessages(s, mode) ==
    RenderAll([ s EXCEPT !.chatMessages = << >> ],
              IF mode = "history" THEN s.historyMessages ELSE s.pdfMessages)

\* closeMenus, app.js:452-456 (the same three lines end switchMode, 360-363)
closeMenus(s) ==
    [ s EXCEPT !.menuOpen = FALSE, !.clickListener = FALSE ]

\* A switch that also takes the typing indicator down.
switchModeResetsGuard(s, mode) ==
    LET s1 == [ s EXCEPT !.currentMode = mode, !.isTyping = FALSE ] IN
    closeMenus(IF mode \in { "history", "pdf" } THEN loadMessages(s1, mode) ELSE s1)

\* switchMode, app.js:327-364
switchMode(s, mode) ==
    LET s1 == [ s EXCEPT !.currentMode = mode ] IN
    closeMenus(IF mode \in { "history", "pdf" } THEN loadMessages(s1, mode) ELSE s1)

\* History of the suspended calls: a mode change, a confirmed clear.
NoteSwitch(reqs) == [ k \in 1 .. Len(reqs) |-> [ reqs[k] EXCEPT !.switched = TRUE ] ]

NoteClear(reqs) == [ k \in 1 .. Len(reqs) |-> [ reqs[k] EXCEPT !.cleared = TRUE ] ]

SwitchMode ==
    \E mode \in ModeValues :
        LET t == switchMode(Session, mode) IN
        /\ nEvents < MaxEvents
        /\ nEvents' = nEvents + 1
        /\ Commit(t)
        /\ requests' = IF mode # currentMode THEN NoteSwitch(requests) ELSE requests
        /\ lastEvent' = Event("switchMode",
                              IF lastEvent.op = "switchMode" /\ lastEvent.result = mode
                              THEN << "again" >> ELSE << >>,
                              mode, t)

----------------------------------------------------------------------------
(* Clearing and the confirmation dialog, app.js:396-480 *)

\* querySelectorAll('[data-mode="..."]') ... remove(), app.js:407-408, 435-436
RemoveDataMode(nodes, mode) == SelectSeq(nodes, LAMBDA n : n.dataMode # mode)

\* A history clear that empties the staged files too.
ClearHistoryAndFiles(s) ==
    closeMenus(showToast(
        [ s EXCEPT !.historyMessages = << >>,
                   !.uploadedPDFs = << >>,
                   !.chatMessages = RemoveDataMode(@, "history") ],
        "historyCleared", "success"))

\* app.js:402-417: the action clearHistoryMode hands to showConfirmation
ClearHistoryAction(s) ==
    closeMenus(showToast(
        [ s EXCEPT !.historyMessages = << >>,
                   !.chatMessages = RemoveDataMode(@, "history") ],
        "historyCleared", "success"))

\* A PDF clear that empties the history thread too.
ClearPDFAndHistory(s) ==
    closeMenus(showToast(
        [ s EXCEPT !.pdfMessages = << >>,
                   !.historyMessages = << >>,
                   !.uploadedPDFs = << >>,
                   !.chatMessages = RemoveDataMode(@, "pdf") ],
        "pdfCleared", "success"))

\* app.js:427-448: the action clearPDFChat hands to showConfirmation
ClearPDFAction(s) ==
    closeMenus(showToast(
        [ s EXCEPT !.pdfMessages = << >>,
                   !.uploadedPDFs = << >>,
                   !.chatMessages = RemoveDataMode(@, "pdf") ],
        "pdfCleared", "success"))

\* A dialog that keeps the action it already holds.
showConfirmationKeepsFirst(s, action) ==
    [ s EXCEPT !.pendingClearAction = IF @ = "null" THEN action ELSE @ ]

\* A request that runs the action at once, without the dialog.
showConfirmationAtOnce(s, action) ==
    IF action = "clearHistory" THEN ClearHistoryAction(s) ELSE ClearPDFAction(s)

\* showConfirmation, app.js:459-467
showConfirmation(s, action) ==
    [ s EXCEPT !.pendingClearAction = action,
               !.overwritten = @ \cup ({ s.pendingClearAction } \ { "null" }) ]

\* A dialog closed with the action left in the slot.
hideConfirmationKeepsSlot(s) == s

\* A dialog closed by running the action in the slot.
hideConfirmationExecuting(s) ==
    [ (IF s.pendingClearAction = "clearHistory" THEN ClearHistoryAction(s)
       ELSE IF s.pendingClearAction = "clearPDF" THEN ClearPDFAction(s)
       ELSE s)
      EXCEPT !.pendingClearAction = "null", !.overwritten = { } ]

\* hideConfirmation, app.js:469-473
hideConfirmation(s) ==
    [ s EXCEPT !.pendingClearAction = "null", !.overwritten = { } ]

\* A confirmation that also gives up the request in flight.
confirmActionReleasing(s) ==
    IF s.pendingClearAction = "null" THEN s
    ELSE [ hideConfirmation(IF s.pendingClearAction = "clearHistory"
                            THEN ClearHistoryAction(s)
                            ELSE ClearPDFAction(s))
           EXCEPT !.isTyping = FALSE ]

\* confirmAction, app.js:475-480
confirmAction(s) ==
    IF s.pendingClearAction = "null" THEN s
    ELSE hideConfirmation(IF s.pendingClearAction = "clearHistory"
                          THEN ClearHistoryAction(s)
                          ELSE ClearPDFAction(s))

\* clearHistoryMode, app.js:396-419
ClearHistoryMode ==
    LET t == showConfirmation(Session, "clearHistory") IN
    /\ nEvents < MaxEvents
    /\ nEvents' = nEvents + 1
    /\ Commit(t)
    /\ requests' = requests
    /\ lastEvent' = Event("clearHistoryMode", << >>, "asked", t)

\* clearPDFChat, app.js:421-450
ClearPDFChat ==
    LET t == showConfirmation(Session, "clearPDF") IN
    /\ nEvents < MaxEvents
    /\ nEvents' = nEvents + 1
    /\ Commit(t)
    /\ requests' = requests
    /\ lastEvent' = Event("clearPDFChat", << >>, "asked", t)

ConfirmAction ==
    LET t == confirmAction(Session) IN
    /\ nEvents < MaxEvents
    /\ nEvents' = nEvents + 1
    /\ Commit(t)
    /\ requests' = IF pendingClearAction # "null" THEN NoteClear(requests) ELSE requests
    /\ lastEvent' = Event("confirmAction", overwritten, pendingClearAction, t)

HideConfirmation ==
    LET t == hideConfirmation(Session) IN
    /\ nEvents < MaxEvents
    /\ nEvents' = nEvents + 1
    /\ Commit(t)
    /\ requests' = requests
    /\ lastEvent' = Event("hideConfirmation", << >>, pendingClearAction, t)

----------------------------------------------------------------------------
(* Staged PDF files, app.js:487-604 *)

\* Date.now() + Math.random(), app.js:508: a number no staged file has
\* (the least unused one stands for it).
FreshId(pdfs) ==
    CHOOSE i \in 1 .. (Len(pdfs) + 1) :
        /\ \A k \in 1 .. Len(pdfs) : pdfs[k].id # i
        /\ \A j \in 1 .. (i - 1) : \E k \in 1 .. Len(pdfs) : pdfs[k].id = j

\* A search that finds nothing.
AlreadyStagedNever(pdfs, file) == FALSE

\* app.js:498
AlreadyStaged(pdfs, file) ==
    \E k \in 1 .. Len(pdfs) : pdfs[k].name = file.name /\ pdfs[k].size = file.size

\* The same test refusing a file of exactly the limit.
TooLargeAtLimit(file) == file.size >= SizeLimit

\* app.js:492
TooLarge(file) == file.size > SizeLimit

\* The same body with a duplicate dropped without a toast.
ProcessFileSilentDuplicate(s, file) ==
    IF file.type = PdfType
    THEN IF TooLarge(file)
         THEN showToast(s, "TooLarge", "error")
         ELSE IF AlreadyStaged(s.uploadedPDFs, file)
         THEN s
         ELSE showToast(
                [ s EXCEPT !.uploadedPDFs =
                    Append(@, [ name |-> file.name, size |-> file.size,
                                id |-> FreshId(s.uploadedPDFs) ]) ],
                "added", "success")
    ELSE showToast(s, "NotPDF", "error")

\* app.js:491-514: the body of files.forEach
ProcessFile(s, file) ==
    IF file.type = PdfType
    THEN IF TooLarge(file)
         THEN showToast(s, "TooLarge", "error")
         ELSE IF AlreadyStaged(s.uploadedPDFs, file)
         THEN showToast(s, "Duplicate", "error")
         ELSE showToast(
                [ s EXCEPT !.uploadedPDFs =
                    Append(@, [ name |-> file.name, size |-> file.size,
                                id |-> FreshId(s.uploadedPDFs) ]) ],
                "added", "success")
    ELSE showToast(s, "NotPDF", "error")

\* A loop that ends at the first file it does not stage.
RECURSIVE handleFileSelectUntilRejected(_, _)
handleFileSelectUntilRejected(s, files) ==
    IF files = << >> THEN s
    ELSE LET t == ProcessFile(s, Head(files)) IN
         IF t.uploadedPDFs = s.uploadedPDFs THEN t
         ELSE handleFileSelectUntilRejected(t, Tail(files))

\* handleFileSelect, app.js:487-521
RECURSIVE handleFileSelect(_, _)
handleFileSelect(s, files) ==
    IF files = << >> THEN s
    ELSE handleFileSelect(ProcessFile(s, Head(files)), Tail(files))

\* A listener that hands every dropped file to handleFileSelect.
dropFilesUnfiltered(s, files) == handleFileSelect(s, files)

\* The drop listener, app.js:583-602
dropFiles(s, files) ==
    LET pdfFiles == SelectSeq(files, LAMBDA f : f.type = PdfType) IN
    IF Len(pdfFiles) > 0
    THEN handleFileSelect(s, pdfFiles)
    ELSE showToast(s, "OnlyPDF", "error")

\* The same without the test of app.js:552: splice(-1, 1) takes the last file.
removePDFFileNoCheck(s, fileId) ==
    LET n == Len(s.uploadedPDFs)
        found == { k \in 1 .. n : s.uploadedPDFs[k].id = fileId }
        fileIndex == IF found = { } THEN n
                     ELSE CHOOSE k \in found : \A j \in found : k <= j
    IN  IF n = 0 THEN s
        ELSE showToast([ s EXCEPT !.uploadedPDFs = RemoveAt(@, fileIndex) ],
                       "removed", "success")

\* removePDFFile, app.js:550-558
removePDFFile(s, fileId) ==
    IF \E k \in 1 .. Len(s.uploadedPDFs) : s.uploadedPDFs[k].id = fileId
    THEN LET fileIndex == CHOOSE k \in 1 .. Len(s.uploadedPDFs) :
                            /\ s.uploadedPDFs[k].id = fileId
                            /\ \A j \in 1 .. (k - 1) : s.uploadedPDFs[j].id # fileId
         IN showToast([ s EXCEPT !.uploadedPDFs = RemoveAt(@, fileIndex) ],
                      "removed", "success")
    ELSE s

HandleFileSelect ==
    \E files \in Batches(MaxEvents - nEvents) :
        LET t == handleFileSelect(Session, files) IN
        /\ nEvents + BatchCost(files) <= MaxEvents
        /\ nEvents' = nEvents + BatchCost(files)
        /\ Commit(t)
        /\ requests' = requests
        /\ lastEvent' = Event("handleFileSelect", files, "done", t)

Drop ==
    \E files \in Batches(MaxEvents - nEvents) :
        LET t == dropFiles(Session, files) IN
        /\ nEvents + BatchCost(files) <= MaxEvents
        /\ nEvents' = nEvents + BatchCost(files)
        /\ Commit(t)
        /\ requests' = requests
        /\ lastEvent' = Event("drop", files, "done", t)

RemovePDFFile ==
    \E fileId \in RemoveIds :
        LET t == removePDFFile(Session, fileId) IN
        /\ nEvents < MaxEvents
        /\ nEvents' = nEvents + 1
        /\ Commit(t)
        /\ requests' = requests
        /\ lastEvent' = Event("removePDFFile", << fileId >>, "done", t)

----------------------------------------------------------------------------
(* The menu, app.js:302-325 *)

\* toggleMenu, app.js:302-314
toggleMenu(s) ==
    [ s EXCEPT !.menuOpen = ~ s.menuOpen, !.clickListener = ~ s.menuOpen ]

\* A click outside that closes the menu and leaves the listener registered.
closeMenuOnClickOutsideKeepsListener(s, outside) ==
    IF outside THEN [ s EXCEPT !.menuOpen = FALSE ] ELSE s

\* closeMenuOnClickOutside, app.js:316-325
closeMenuOnClickOutside(s, outside) ==
    IF outside THEN [ s EXCEPT !.menuOpen = FALSE, !.clickListener = FALSE ] ELSE s

ToggleMenu ==
    LET t == toggleMenu(Session) IN
    /\ nEvents < MaxEvents
    /\ nEvents' = nEvents + 1
    /\ Commit(t)
    /\ requests' = requests
    /\ lastEvent' = Event("toggleMenu", << >>, "done", t)

\* A click somewhere in the document while the listener is registered.
DocumentClick ==
    \E outside \in BOOLEAN :
        LET t == closeMenuOnClickOutside(Session, outside) IN
        /\ clickListener
        /\ nEvents < MaxEvents
        /\ nEvents' = nEvents + 1
        /\ Commit(t)
        /\ requests' = requests
        /\ lastEvent' = Event("documentClick", << >>, "done", t)

----------------------------------------------------------------------------
(* The toast elements, app.js:238-261.  showToast appends a new element to  *)
(* document.body and registers two timers for it; the second registers a    *)
(* third.  Nothing else reads or writes the element.  Timers of the same    *)
(* delay fire in the order they were registered, so a timer of an element   *)
(* fires after the same timer of every element created before it.           *)

ToastTypes == { "success", "error" }

\* app.js:239-245: createElement ... appendChild
createToast(elements, type) == Append(elements, [ type |-> type, stage |-> "created" ])

\* app.js:248-251: the callback of the 100 ms timer
fadeIn(elements, k) == [ elements EXCEPT ![k].stage = "visible" ]

\* app.js:254-256: the callback of the 3000 ms timer
fadeOut(elements, k) == [ elements EXCEPT ![k].stage = "hidden" ]

\* A removal that empties the place all toasts are shown in.
removeChildAll(elements, k) ==
    [ j \in 1 .. Len(elements) |-> [ elements[j] EXCEPT !.stage = "removed" ] ]

\* app.js:257-259: the callback of the 300 ms timer: removeChild(toast)
removeChild(elements, k) == [ elements EXCEPT ![k].stage = "removed" ]

\* Element k is the one in the given stage that was created first.
FirstIn(elements, k, stage) ==
    /\ elements[k].stage = stage
    /\ \A j \in 1 .. (k - 1) : elements[j].stage # stage

\* Some handler calls showToast.
ShowToast ==
    \E type \in ToastTypes :
        /\ Len(toastElements) < MaxToasts
        /\ toastElements' = createToast(toastElements, type)
        /\ UNCHANGED << sessionVars, formatInput, formatOutput, refInput, refOutput >>

ToastFadesIn ==
    \E k \in 1 .. Len(toastElements) :
        /\ FirstIn(toastElements, k, "created")
        /\ toastElements' = fadeIn(toastElements, k)
        /\ UNCHANGED << sessionVars, formatInput, formatOutput, refInput, refOutput >>

\* The 3000 ms timer was registered with the 100 ms one: it fires after it.
ToastFadesOut ==
    \E k \in 1 .. Len(toastElements) :
        /\ FirstIn(toastElements, k, "visible")
        /\ toastElements' = fadeOut(toastElements, k)
        /\ UNCHANGED << sessionVars, formatInput, formatOutput, refInput, refOutput >>

ToastRemoved ==
    \E k \in 1 .. Len(toastElements) :
        /\ FirstIn(toastElements, k, "hidden")
        /\ toastElements' = removeChild(toastElements, k)
        /\ UNCHANGED << sessionVars, formatInput, formatOutput, refInput, refOutput >>

----------------------------------------------------------------------------
(* formatMessage applied to a text, app.js:263-269 *)

FormatChunks == { "*", "\n", "x" }

\* The text of the example: "**bold** and *italic*\nline2"
ExampleText ==
    << "*", "*", "bold", "*", "*", " and ", "*", "italic", "*", "\n", "line2" >>

\* The texts formatMessage is applied to.
FormatInputs ==
    UNION { [ 1 .. n -> FormatChunks ] : n \in 0 .. MaxTextLen } \cup { ExampleText }

FormatMessage ==
    /\ formatOutput = Null
    /\ formatOutput' = formatMessage(formatInput)
    /\ UNCHANGED << sessionVars, toastElements, formatInput, refInput, refOutput >>

----------------------------------------------------------------------------
(* The reference block of addMessage, app.js:181-210 *)

\* URLs a backend may cite: with and without "www." in front, with "www."
\* further in, with a port, and a reference without scheme.
RefUrls ==
    { Url1, "http://www.example.com/x", "https://sub.www.example.com",
      "https://www.www.example.com:8080/", "example.com/x" }

Senders == { "user", "ai" }

RefInputs ==
    [ sender : Senders,
      sourceUrls : { Null, Undefined }
                     \cup UNION { [ 1 .. n -> RefUrls ] : n \in 0 .. MaxRefs } ]

NoRefOutput == [ rendered |-> FALSE, refs |-> << >> ]

\* addMessage builds the node of a message with these sender and sourceUrls.
RenderReferences ==
    /\ ~ refOutput.rendered
    /\ refOutput' = [ rendered |-> TRUE,
                      refs |-> MessageNode("history", << "A" >>, refInput.sender,
                                           refInput.sourceUrls).refs ]
    /\ UNCHANGED << sessionVars, toastElements, formatInput, formatOutput, refInput >>

----------------------------------------------------------------------------
(* The page *)

\* The session of a page just loaded.
SessionInit ==
    /\ isTyping = FALSE
    /\ currentMode = "history"
    /\ uploadedPDFs = << >>
    /\ menuOpen = FALSE
    /\ pendingClearAction = "null"
    /\ historyMessages = << >>
    /\ pdfMessages = << >>
    /\ chatMessages = << >>
    /\ clickListener = FALSE
    /\ requests = << >>
    /\ lastEvent = [ op |-> "load", arg |-> << >>, result |-> "done", resets |-> 0 ]
    /\ toastLog = << >>
    /\ overwritten = { }
    /\ nEvents = 0

Init ==
    /\ SessionInit
    /\ toastElements = << >>
    /\ formatInput = << >>
    /\ formatOutput = Null
    /\ refInput = [ sender |-> "ai", sourceUrls |-> Null ]
    /\ refOutput = NoRefOutput

Next ==
    \/ SendMessage
    \/ SendSampleQuery
    \/ FetchSettles
    \/ JsonSettles
    \/ SwitchMode
    \/ ClearHistoryMode
    \/ ClearPDFChat
    \/ ConfirmAction
    \/ HideConfirmation
    \/ HandleFileSelect
    \/ Drop
    \/ RemovePDFFile
    \/ ToggleMenu
    \/ DocumentClick

Spec == Init /\ [][Next]_vars

\* The same steps within the smaller amount of user input.
LiveNext ==
    \/ SendMessage /\ nEvents' <= MaxLiveEvents
    \/ SendSampleQuery /\ nEvents' <= MaxLiveEvents
    \/ FetchSettles
    \/ JsonSettles
    \/ SwitchMode /\ nEvents' <= MaxLiveEvents
    \/ ClearHistoryMode /\ nEvents' <= MaxLiveEvents
    \/ ClearPDFChat /\ nEvents' <= MaxLiveEvents
    \/ ConfirmAction /\ nEvents' <= MaxLiveEvents
    \/ HideConfirmation /\ nEvents' <= MaxLiveEvents
    \/ HandleFileSelect /\ nEvents' <= MaxLiveEvents
    \/ Drop /\ nEvents' <= MaxLiveEvents
    \/ RemovePDFFile /\ nEvents' <= MaxLiveEvents
    \/ ToggleMenu /\ nEvents' <= MaxLiveEvents
    \/ DocumentClick /\ nEvents' <= MaxLiveEvents

\* The network call of a dispatched request settles: each await of a
\* suspended sendMessage is eventually resumed.
FairSpec ==
    Init /\ [][LiveNext]_vars /\ WF_vars(FetchSettles) /\ WF_vars(JsonSettles)

\* The toast elements alone: showToast called at any moment, by whatever
\* handler, and the timers of the elements.
ToastNext ==
    \/ ShowToast
    \/ ToastFadesIn
    \/ ToastFadesOut
    \/ ToastRemoved

\* A timer that is due fires.
ToastSpec ==
    Init /\ [][ToastNext]_vars
         /\ WF_vars(ToastFadesIn) /\ WF_vars(ToastFadesOut) /\ WF_vars(ToastRemoved)

\* formatMessage alone, applied to one text.
FormatInit ==
    /\ SessionInit
    /\ toastElements = << >>
    /\ formatInput \in FormatInputs
    /\ formatOutput = Null
    /\ refInput = [ sender |-> "ai", sourceUrls |-> Null ]
    /\ refOutput = NoRefOutput

FormatNext == FormatMessage

FormatSpec == FormatInit /\ [][FormatNext]_vars

\* addMessage alone, for one sender and one sourceUrls.
RefInit ==
    /\ SessionInit
    /\ toastElements = << >>
    /\ formatInput = << >>
    /\ formatOutput = Null
    /\ refInput \in RefInputs
    /\ refOutput = NoRefOutput

RefNext == RenderReferences

RefSpec == RefInit /\ [][RefNext]_vars

----------------------------------------------------------------------------
(* Properties *)

Thread(mode) == IF mode = "history" THEN historyMessages ELSE pdfMessages

OtherThread(mode) == IF mode = "history" THEN pdfMessages ELSE historyMessages

\* The same threads after the step.
ThreadAfter(mode) == IF mode = "history" THEN historyMessages' ELSE pdfMessages'

OtherThreadAfter(mode) == IF mode = "history" THEN pdfMessages' ELSE historyMessages'

\* The step resumes a suspended sendMessage and runs it to its end.
ResponseStep == lastEvent'.op = "response" /\ Len(requests') < Len(requests)

\* The suspended call such a step ends, when it is the only one.
TheRequest == requests[1]

\* xs' is xs with exactly one message appended, sent by sender.
GainsOne(xs, ys, sender) ==
    /\ Len(ys) = Len(xs) + 1
    /\ SubSeq(ys, 1, Len(xs)) = xs
    /\ ys[Len(ys)].sender = sender

\* C1: in every reachable state at most one backend request is outstanding,
\* whatever the interleaving of sends, mode switches, uploads, clears and
\* response arrivals.
C1_AtMostOneRequest == Len(requests) <= 1

\* C1 witness: a send is refused as busy while the request of the other mode
\* is outstanding.
C1_BusySendWitness ==
    /\ Len(requests) = 1
    /\ lastEvent.op = "sendMessage"
    /\ lastEvent.result = "Busy"
    /\ currentMode # requests[1].sentMode

\* C2 (as claimed): when the response of a request arrives with success:true,
\* the answer is appended to the thread of the mode that was active when the
\* request was sent, and the other thread gains no message (here with the
\* active mode at arrival one of the two modes of the page).
C2_AnswerInDispatchThread ==
    [][ (/\ ResponseStep /\ lastEvent'.result = "answer" /\ Len(requests) = 1
         /\ currentMode \in { "history", "pdf" })
        => /\ GainsOne(Thread(TheRequest.sentMode), ThreadAfter(TheRequest.sentMode), "ai")
           /\ OtherThreadAfter(TheRequest.sentMode) = OtherThread(TheRequest.sentMode) ]_vars

\* C3: every dispatched request eventually leaves the session idle: no request
\* outstanding, isTyping false, and a non-empty send not refused.
C3_EventuallyIdle ==
    (Len(requests) > 0) ~>
        (Len(requests) = 0 /\ ~ isTyping /\ ~ SendRefused(Session, << "q" >>))

\* C3 witness: a second send is dispatched after the first request completed.
C3_SendAgainWitness ==
    /\ lastEvent.op = "sendMessage"
    /\ lastEvent.result = "dispatched"
    /\ Len(requests) = 1
    /\ Len(historyMessages) + Len(pdfMessages) >= 2

\* C4 (as claimed): for every dispatched request and every outcome the guard
\* is reset exactly once by the code that handles the outcome.
C4_ResetExactlyOnce ==
    lastEvent.op = "response" => lastEvent.resets = 1

\* C5 (as claimed): in history mode, with no mode switch and no clear during
\* the request, an accepted send puts the user's message in the history thread
\* at once, a success:true response then adds the AI message, so that the
\* thread gained exactly these two, and the pdf thread is unchanged.
C5_HistoryGainsTwo ==
    [][ /\ (/\ lastEvent'.op = "sendMessage" /\ lastEvent'.result = "dispatched"
            /\ currentMode = "history")
           => /\ historyMessages' =
                    Append(historyMessages, UserMessage(Trim(lastEvent'.arg)))
              /\ pdfMessages' = pdfMessages
        /\ (/\ ResponseStep /\ lastEvent'.result \in { "answer", "answerMissing" }
            /\ Len(requests) = 1
            /\ TheRequest.sentMode = "history"
            /\ ~ TheRequest.switched /\ ~ TheRequest.cleared)
           => /\ \E data \in DataValues :
                    /\ data.success
                    /\ historyMessages' = TheRequest.historyAtSend \o
                          << UserMessage(TheRequest.message), AiMessage(data) >>
              /\ pdfMessages' = TheRequest.pdfAtSend ]_vars

\* C6 (as claimed): on a transport failure of a dispatched request exactly one
\* fallback AI message is appended to the message list of the dispatching
\* thread and the guard is false afterwards.
C6_FallbackInThread ==
    [][ (ResponseStep /\ lastEvent'.result = "transportFailure" /\ Len(requests) = 1)
        => /\ isTyping' = FALSE
           /\ GainsOne(Thread(TheRequest.sentMode), ThreadAfter(TheRequest.sentMode), "ai")
           /\ OtherThreadAfter(TheRequest.sentMode) = OtherThread(TheRequest.sentMode) ]_vars

\* Everything of the session but the rendered list is after the step as in t.
SameButChat(t) ==
    /\ isTyping' = t.isTyping
    /\ currentMode' = t.currentMode
    /\ uploadedPDFs' = t.uploadedPDFs
    /\ menuOpen' = t.menuOpen
    /\ pendingClearAction' = t.pendingClearAction
    /\ historyMessages' = t.historyMessages
    /\ pdfMessages' = t.pdfMessages
    /\ clickListener' = t.clickListener

\* C7 (as claimed): a success:false response leaves the session exactly as a
\* transport failure of the same request would: the same fallback message.
C7_SameAsTransportFailure ==
    [][ (ResponseStep /\ lastEvent'.result = "backendFailure")
        => /\ SameButChat(CatchBlock(Session))
           /\ chatMessages' = CatchBlock(Session).chatMessages ]_vars

\* C7 (amended): a success:false response leaves the session as a transport
\* failure of the same request would, except for the text of the one fallback
\* node rendered: guard false, both threads as they were (no answer recorded),
\* the same rendered nodes with one fallback AI node last, which carries the
\* processing-error text where the transport failure carries the
\* connection-error text.
C7_SameExceptFallbackText ==
    [][ (ResponseStep /\ lastEvent'.result = "backendFailure")
        => LET t == CatchBlock(Session)
               n == Len(t.chatMessages)
           IN  /\ SameButChat(t)
               /\ isTyping' = FALSE
               /\ historyMessages' = historyMessages
               /\ pdfMessages' = pdfMessages
               /\ Len(chatMessages') = n
               /\ SubSeq(chatMessages', 1, n - 1) = SubSeq(t.chatMessages, 1, n - 1)
               /\ t.chatMessages[n].content = ConnectionErrorText
               /\ chatMessages'[n] =
                    [ t.chatMessages[n] EXCEPT !.content = ProcessingErrorText ]
               /\ ProcessingErrorText # ConnectionErrorText ]_vars

\* C7 witness: a success:false response has been handled.
C7_BackendFailureWitness ==
    /\ lastEvent.op = "response"
    /\ lastEvent.result = "backendFailure"
    /\ chatMessages # << >>
    /\ chatMessages[Len(chatMessages)].content = ProcessingErrorText

\* C8: a send in pdf mode while no file is staged starts no request, appends
\* no message to either thread or to the rendered list, and leaves the guard
\* as it was: false, unless a request sent earlier is still outstanding.
C8_NoDocumentsNoSend ==
    [][ (lastEvent'.op = "sendMessage" /\ currentMode = "pdf" /\ Len(uploadedPDFs) = 0)
        => /\ requests' = requests
           /\ historyMessages' = historyMessages
           /\ pdfMessages' = pdfMessages
           /\ chatMessages' = chatMessages
           /\ isTyping' = isTyping
           /\ (Len(requests) = 0 => ~ isTyping') ]_vars

\* C8 witness: a non-empty send was refused for lack of documents.
C8_NoDocumentsWitness ==
    /\ lastEvent.op = "sendMessage"
    /\ Trim(lastEvent.arg) # << >>
    /\ currentMode = "pdf"
    /\ Len(uploadedPDFs) = 0
    /\ toastLog = << [ kind |-> "NoDocuments", type |-> "error" ] >>
    /\ ~ isTyping

\* The text is empty or made of whitespace only.
Blank(text) == \A k \in 1 .. Len(text) : text[k] \in Whitespace

\* C9: a send whose text is empty or whitespace-only, or issued while the
\* guard is true, starts no request and changes neither thread, nor the
\* staged files, nor the current mode, nor the guard.
C9_RefusedSendChangesNothing ==
    [][ (lastEvent'.op = "sendMessage" /\ (Blank(lastEvent'.arg) \/ isTyping))
        => /\ requests' = requests
           /\ historyMessages' = historyMessages
           /\ pdfMessages' = pdfMessages
           /\ uploadedPDFs' = uploadedPDFs
           /\ currentMode' = currentMode
           /\ isTyping' = isTyping ]_vars

\* C9 witness: a whitespace-only send was made with nothing in flight, and
\* left the thread holding an earlier exchange as it was.
C9_BlankSendWitness ==
    /\ lastEvent.op = "sendMessage"
    /\ lastEvent.arg = << " " >>
    /\ ~ isTyping
    /\ Len(historyMessages) = 2

ErrorToast(kind) == [ kind |-> kind, type |-> "error" ]

\* The step changes nothing of the session and starts no request.
NothingChanges ==
    /\ UNCHANGED << isTyping, currentMode, uploadedPDFs, menuOpen, pendingClearAction,
                    historyMessages, pdfMessages, chatMessages, clickListener >>
    /\ requests' = requests

\* A validation error of a send, from its text and the state it is made in.
SendValidationError(text) ==
    \/ Blank(text)
    \/ isTyping
    \/ (currentMode = "pdf" /\ Len(uploadedPDFs) = 0)

\* Candidate k of the batch fails validation: by its type, by its size, or
\* because its (name, size) is staged or comes earlier in the batch as a file
\* that passes the type and size checks.
FailsType(files, k) == files[k].type # PdfType

FailsSize(files, k) == files[k].type = PdfType /\ files[k].size > SizeLimit

FailsDuplicate(files, k) ==
    /\ files[k].type = PdfType
    /\ files[k].size <= SizeLimit
    /\ \/ \E j \in 1 .. Len(uploadedPDFs) :
            /\ uploadedPDFs[j].name = files[k].name
            /\ uploadedPDFs[j].size = files[k].size
       \/ \E j \in 1 .. (k - 1) :
            /\ files[j].name = files[k].name
            /\ files[j].size = files[k].size
            /\ files[j].type = PdfType

\* The toast candidate k of a batch gets when each candidate gets its own.
OwnToast(files, k) ==
    IF FailsType(files, k) THEN ErrorToast("NotPDF")
    ELSE IF FailsSize(files, k) THEN ErrorToast("TooLarge")
    ELSE IF FailsDuplicate(files, k) THEN ErrorToast("Duplicate")
    ELSE [ kind |-> "added", type |-> "success" ]

\* The step stages the candidates of the batch that pass validation, after
\* the files staged before, and changes nothing else.
StagesThePassing(files) ==
    LET passing == { k \in 1 .. Len(files) : OwnToast(files, k).type = "success" } IN
    /\ Len(uploadedPDFs') = Len(uploadedPDFs) + Cardinality(passing)
    /\ SubSeq(uploadedPDFs', 1, Len(uploadedPDFs)) = uploadedPDFs
    /\ \A k \in passing :
         \E j \in (Len(uploadedPDFs) + 1) .. Len(uploadedPDFs') :
            /\ uploadedPDFs'[j].name = files[k].name
            /\ uploadedPDFs'[j].size = files[k].size
    /\ UNCHANGED << isTyping, currentMode, menuOpen, pendingClearAction,
                    historyMessages, pdfMessages, chatMessages, clickListener >>
    /\ requests' = requests

\* C10 (as claimed): every validation error of every kind is surfaced as a
\* toast, and the rejected operation changes no session state and sends no
\* request.
C10_EveryErrorToasts ==
    [][ /\ (lastEvent'.op = "sendMessage" /\ SendValidationError(lastEvent'.arg))
           => /\ Len(toastLog') = 1
              /\ toastLog'[1].type = "error"
              /\ NothingChanges
        /\ lastEvent'.op \in { "handleFileSelect", "drop" }
           => /\ Len(toastLog') = Len(lastEvent'.arg)
              /\ \A k \in 1 .. Len(lastEvent'.arg) :
                    toastLog'[k] = OwnToast(lastEvent'.arg, k)
              /\ StagesThePassing(lastEvent'.arg) ]_vars

\* C10 (amended): the validation errors NoDocuments (send), and NotPDF,
\* TooLarge and Duplicate on the file-select path, are each surfaced as one
\* error toast, one per rejected candidate in batch order; EmptyMessage and
\* Busy are refused without any toast; on the drag-and-drop path the non-PDF
\* files of a batch are discarded without a toast when the batch holds a PDF
\* (the PDFs are then treated as on the file-select path) and a batch without
\* any PDF gets one generic error toast.  In every case the refused send or
\* rejected candidate changes no session state and no request is sent.
C10_ErrorsSurfacedOrSilent ==
    [][ /\ (lastEvent'.op = "sendMessage" /\ SendValidationError(lastEvent'.arg))
           => /\ toastLog' = IF Blank(lastEvent'.arg) \/ isTyping
                             THEN << >>
                             ELSE << ErrorToast("NoDocuments") >>
              /\ NothingChanges
        /\ lastEvent'.op = "handleFileSelect"
           => /\ Len(toastLog') = Len(lastEvent'.arg)
              /\ \A k \in 1 .. Len(lastEvent'.arg) :
                    toastLog'[k] = OwnToast(lastEvent'.arg, k)
              /\ StagesThePassing(lastEvent'.arg)
        /\ lastEvent'.op = "drop"
           => LET pdfFiles == SelectSeq(lastEvent'.arg, LAMBDA f : f.type = PdfType) IN
              IF pdfFiles = << >>
              THEN toastLog' = << ErrorToast("OnlyPDF") >> /\ NothingChanges
              ELSE /\ Len(toastLog') = Len(pdfFiles)
                   /\ \A k \in 1 .. Len(pdfFiles) : toastLog'[k] = OwnToast(pdfFiles, k)
                   /\ StagesThePassing(pdfFiles) ]_vars

\* C10 witness: a dropped batch of a non-PDF file and a PDF already staged
\* got the one toast of the duplicate, and nothing for the non-PDF file.
C10_MixedDropWitness ==
    /\ lastEvent.op = "drop"
    /\ Len(lastEvent.arg) = 2
    /\ lastEvent.arg[1].type # PdfType
    /\ lastEvent.arg[2].type = PdfType
    /\ toastLog = << ErrorToast("Duplicate") >>
    /\ Len(uploadedPDFs) = 1

\* The (name, size) of a file, and of the files of a sequence.
Key(file) == [ name |-> file.name, size |-> file.size ]

Keys(files) == [ k \in 1 .. Len(files) |-> Key(files[k]) ]

\* The step is an add of a batch, by the file input or by a drop.
AddStep == lastEvent'.op \in { "handleFileSelect", "drop" }

\* C11: in every reachable state no two staged files have equal (name, size).
C11_UniqueByNameSize ==
    \A i, j \in 1 .. Len(uploadedPDFs) :
        Key(uploadedPDFs[i]) = Key(uploadedPDFs[j]) => i = j

\* C11 witness: a batch holding the same acceptable file twice was added and
\* one file is staged.
C11_SameFileTwiceWitness ==
    /\ lastEvent.op \in { "handleFileSelect", "drop" }
    /\ Len(lastEvent.arg) = 2
    /\ lastEvent.arg[1] = lastEvent.arg[2]
    /\ lastEvent.arg[1].type = "application/pdf"
    /\ lastEvent.arg[1].size <= 10 * 1024 * 1024
    /\ Len(uploadedPDFs) = 1

RECURSIVE Staging(_, _)
Staging(keys, files) ==
    IF files = << >> THEN keys
    ELSE LET file == Head(files)
             passes == /\ file.type = "application/pdf"
                       /\ file.size <= 10 * 1024 * 1024
                       /\ \A k \in 1 .. Len(keys) : keys[k] # Key(file)
         IN  Staging(IF passes THEN Append(keys, Key(file)) ELSE keys, Tail(files))

\* C13: within a batch a rejected candidate does not block its siblings:
\* after the batch the staged files are the files staged before followed, in
\* batch order, by every candidate that passes validation against the files
\* staged when it is processed.
C13_SiblingsNotBlocked ==
    [][ AddStep
        => /\ Keys(uploadedPDFs') = Staging(Keys(uploadedPDFs), lastEvent'.arg)
           /\ SubSeq(uploadedPDFs', 1, Len(uploadedPDFs)) = uploadedPDFs ]_vars

\* C13 witness: of a selected batch of three the second file was rejected and
\* the first and the third were staged.
C13_MiddleRejectedWitness ==
    /\ lastEvent.op = "handleFileSelect"
    /\ Len(lastEvent.arg) = 3
    /\ Len(toastLog) = 3
    /\ toastLog[1].type = "success"
    /\ toastLog[2].type = "error"
    /\ toastLog[3].type = "success"
    /\ Keys(uploadedPDFs) = << Key(lastEvent.arg[1]), Key(lastEvent.arg[3]) >>

IsError(toast) == toast.type = "error"

\* The error toasts of the rejected candidates of a batch, one each, in
\* batch order.
Rejections(files) ==
    SelectSeq([ k \in 1 .. Len(files) |-> OwnToast(files, k) ], IsError)

\* C14 (as claimed): every rejected candidate of a batch gets its own error
\* notification, on the file input path and on the drag-and-drop path: at
\* least as many error toasts as rejected candidates.
C14_EachRejectionToasts ==
    [][ AddStep
        => Len(SelectSeq(toastLog', IsError)) >= Len(Rejections(lastEvent'.arg)) ]_vars

\* C14 (amended): on the file input path every rejected candidate gets its
\* own error toast, in batch order.  On the drag-and-drop path the rejected
\* PDF files (too large, duplicate) get their own error toast in batch order
\* and the non-PDF files of a batch that holds a PDF get none; a dropped batch
\* without any PDF gets one generic error toast, however many files it holds.
C14_RejectionToastsByPath ==
    [][ /\ lastEvent'.op = "handleFileSelect"
           => SelectSeq(toastLog', IsError) = Rejections(lastEvent'.arg)
        /\ lastEvent'.op = "drop"
           => LET pdfFiles == SelectSeq(lastEvent'.arg,
                                        LAMBDA f : f.type = "application/pdf")
              IN  IF pdfFiles = << >>
                  THEN toastLog' = << ErrorToast("OnlyPDF") >>
                  ELSE SelectSeq(toastLog', IsError) = Rejections(pdfFiles) ]_vars

\* C14 witness: a dropped batch of a non-PDF file and a PDF that is too large
\* got the one toast of the PDF.
C14_MixedDropWitness ==
    /\ lastEvent.op = "drop"
    /\ Len(lastEvent.arg) = 2
    /\ lastEvent.arg[1].type # "application/pdf"
    /\ lastEvent.arg[2].type = "application/pdf"
    /\ lastEvent.arg[2].size > 10 * 1024 * 1024
    /\ toastLog = << ErrorToast("TooLarge") >>

\* The step is confirmAction finding the given action in the slot.
Confirms(action) ==
    lastEvent'.op = "confirmAction" /\ pendingClearAction = action

\* The one toast a clear action shows.
ClearToast(action) ==
    [ kind |-> IF action = "clearHistory" THEN "historyCleared" ELSE "pdfCleared",
      type |-> "success" ]

\* C15: a confirmed clear of the history thread empties the history thread
\* and leaves the messages of the pdf thread unchanged; a confirmed clear of
\* the pdf thread empties the pdf thread and leaves the messages of the
\* history thread unchanged.
C15_ClearLeavesOtherThread ==
    [][ /\ Confirms("clearHistory")
           => historyMessages' = << >> /\ pdfMessages' = pdfMessages
        /\ Confirms("clearPDF")
           => pdfMessages' = << >> /\ historyMessages' = historyMessages ]_vars

\* C15 witness: a clear of the pdf thread was confirmed while the history
\* thread held messages, which it still holds.
C15_ClearPDFWitness ==
    /\ lastEvent.op = "confirmAction"
    /\ lastEvent.result = "clearPDF"
    /\ pdfMessages = << >>
    /\ historyMessages # << >>

\* C16: a confirmed clear of the pdf thread also empties the staged files; a
\* confirmed clear of the history thread leaves the staged files unchanged.
C16_ClearPDFEmptiesUploads ==
    [][ /\ Confirms("clearPDF") => uploadedPDFs' = << >>
        /\ Confirms("clearHistory") => uploadedPDFs' = uploadedPDFs ]_vars

\* C16 witness: a clear of the history thread was confirmed while a file was
\* staged, which still is.
C16_ClearHistoryKeepsFilesWitness ==
    /\ lastEvent.op = "confirmAction"
    /\ lastEvent.result = "clearHistory"
    /\ historyMessages = << >>
    /\ uploadedPDFs # << >>

\* C17: confirmAction with an action pending executes it exactly once (its
\* thread is emptied and its one toast is shown once) and leaves the slot
\* empty; a confirmAction that finds the slot empty, and so a second one
\* without a request in between, executes nothing and changes no state.
C17_ConfirmOnce ==
    [][ /\ (lastEvent'.op = "confirmAction" /\ pendingClearAction # "null")
           => /\ pendingClearAction' = "null"
              /\ toastLog' = << ClearToast(pendingClearAction) >>
              /\ pendingClearAction = "clearHistory" => historyMessages' = << >>
              /\ pendingClearAction = "clearPDF" => pdfMessages' = << >>
        /\ (lastEvent'.op = "confirmAction" /\ pendingClearAction = "null")
           => NothingChanges /\ toastLog' = << >>
        /\ (lastEvent'.op = "confirmAction" /\ lastEvent.op = "confirmAction")
           => NothingChanges /\ toastLog' = << >> ]_vars

\* C17 witness: confirmAction found the slot empty after an earlier
\* confirmAction had executed a clear (during the request still in flight).
C17_SecondConfirmWitness ==
    /\ lastEvent.op = "confirmAction"
    /\ lastEvent.result = "null"
    /\ Len(requests) = 1
    /\ requests[1].cleared

\* What the action clears is after the step as before.
TargetUntouched(action) ==
    IF action = "clearHistory"
    THEN historyMessages' = historyMessages
    ELSE pdfMessages' = pdfMessages /\ uploadedPDFs' = uploadedPDFs

\* C18: at most one action is pending and a second request replaces the
\* first: a request leaves its own action in the slot whatever the slot
\* held, and a confirmAction executes the action in the slot only: an action
\* requested earlier and replaced is not executed, and the slot is empty
\* afterwards.
C18_SecondRequestOverwrites ==
    [][ /\ pendingClearAction' \in { "null", "clearHistory", "clearPDF" }
        /\ lastEvent'.op = "clearHistoryMode" => pendingClearAction' = "clearHistory"
        /\ lastEvent'.op = "clearPDFChat" => pendingClearAction' = "clearPDF"
        /\ (lastEvent'.op = "confirmAction" /\ pendingClearAction # "null")
           => /\ toastLog' = << ClearToast(pendingClearAction) >>
              /\ pendingClearAction' = "null"
              /\ \A a \in overwritten \ { pendingClearAction } : TargetUntouched(a) ]_vars

\* C18 witness: the clear of the pdf thread, requested after the clear of the
\* history thread and in its place, was confirmed, and the history thread
\* still holds its messages.
C18_OverwrittenWitness ==
    /\ lastEvent.op = "confirmAction"
    /\ lastEvent.result = "clearPDF"
    /\ "clearHistory" \in lastEvent.arg
    /\ historyMessages # << >>

\* C19: hideConfirmation empties the slot without executing the action:
\* neither thread, nor the staged files, nor anything else of the session
\* changes and no toast is shown; a confirmAction that follows it without a
\* new request executes nothing.
C19_CancelExecutesNothing ==
    [][ /\ lastEvent'.op = "hideConfirmation"
           => /\ pendingClearAction' = "null"
              /\ UNCHANGED << isTyping, currentMode, uploadedPDFs, menuOpen,
                              historyMessages, pdfMessages, chatMessages,
                              clickListener, requests >>
              /\ toastLog' = << >>
        /\ (lastEvent.op = "hideConfirmation" /\ lastEvent'.op = "confirmAction")
           => NothingChanges /\ toastLog' = << >> ]_vars

\* C19 witness: the clear of the history thread was pending and cancelled,
\* and the history thread still holds its messages.
C19_CancelWitness ==
    /\ lastEvent.op = "hideConfirmation"
    /\ lastEvent.result = "clearHistory"
    /\ pendingClearAction = "null"
    /\ historyMessages # << >>

\* C20 (as claimed): switchMode with a value that is neither 'history' nor
\* 'pdf' changes nothing: currentMode, both threads, the staged files and the
\* rendered list stay as they were, and currentMode stays one of the two
\* modes.
C20_InvalidSwitchNoOp ==
    [][ (lastEvent'.op = "switchMode" /\ lastEvent'.result \notin { "history", "pdf" })
        => /\ currentMode' = currentMode
           /\ currentMode' \in { "history", "pdf" }
           /\ UNCHANGED << historyMessages, pdfMessages, uploadedPDFs, chatMessages >> ]_vars

\* The rendered nodes that are messages (the typing indicator is none).
MessageNodes(nodes) == SelectSeq(nodes, LAMBDA n : n.kind = "message")

\* C21: switchMode changes no data: the stored messages of both threads,
\* the staged files, the pending confirmation and the in-flight guard are
\* after every call as before; and it is idempotent: a call that repeats the
\* call before it leaves the rendered list, and so its message count, and the
\* mode as the first call left them, as would a repetition of any call.
C21_SwitchIdempotent ==
    [][ lastEvent'.op = "switchMode"
        => /\ UNCHANGED << historyMessages, pdfMessages, uploadedPDFs,
                           pendingClearAction, isTyping >>
           /\ Len(requests') = Len(requests)
           /\ lastEvent'.arg = << "again" >>
              => /\ chatMessages' = chatMessages
                 /\ Len(MessageNodes(chatMessages')) = Len(MessageNodes(chatMessages))
                 /\ currentMode' = currentMode
           /\ switchMode(Session', lastEvent'.result).chatMessages = chatMessages'
           /\ switchMode(Session', lastEvent'.result).currentMode = currentMode' ]_vars

\* C21 witness: switchMode was called a second time in a row with the same
\* mode, with messages rendered.
C21_SecondCallWitness ==
    /\ lastEvent.op = "switchMode"
    /\ lastEvent.arg = << "again" >>
    /\ lastEvent.result \in { "history", "pdf" }
    /\ chatMessages # << >>

\* C22: right after switchMode(X) with X one of the two modes the rendered
\* list is exactly the stored messages of thread X, one node each, in
\* insertion order: the nodes rendered before are gone and no message of the
\* other thread is shown.
C22_RendersThread ==
    [][ (lastEvent'.op = "switchMode" /\ lastEvent'.result \in { "history", "pdf" })
        => LET X == lastEvent'.result
               stored == ThreadAfter(X)
           IN  /\ currentMode' = X
               /\ chatMessages' =
                    [ k \in 1 .. Len(stored) |->
                        MessageNode(X, stored[k].content, stored[k].sender,
                                    stored[k].sourceUrls) ] ]_vars

\* C22 witness: both threads hold messages and switchMode has just rendered
\* one of them.
C22_BothThreadsWitness ==
    /\ lastEvent.op = "switchMode"
    /\ lastEvent.result \in { "history", "pdf" }
    /\ historyMessages # << >>
    /\ pdfMessages # << >>
    /\ Len(chatMessages) = Len(Thread(lastEvent.result))

\* C23 (as claimed): thread isolation: what a request dispatched under mode
\* M produces is never stored in the thread of the other mode nor shown while
\* the other mode is active: when its response (answer or fallback) is
\* handled after a switch to the other mode, the other thread gains nothing
\* and no message node is added to the rendered list.
C23_ThreadIsolation ==
    [][ (/\ ResponseStep /\ Len(requests) = 1
         /\ currentMode \in { "history", "pdf" }
         /\ currentMode # TheRequest.sentMode)
        => /\ OtherThreadAfter(TheRequest.sentMode) = OtherThread(TheRequest.sentMode)
           /\ MessageNodes(chatMessages') = MessageNodes(chatMessages) ]_vars

\* xs is a prefix of ys.
IsPrefix(xs, ys) == Len(xs) <= Len(ys) /\ SubSeq(ys, 1, Len(xs)) = xs

\* C24: within each thread messages stay in insertion order and are never
\* changed, reordered or merged: across every step but a confirmed clear of
\* the thread, the thread before the step is a prefix of the thread after it;
\* and every accepted send appends its message as a new last entry, also when
\* the thread already holds the same text.
C24_AppendOnly ==
    [][ /\ ~ Confirms("clearHistory") => IsPrefix(historyMessages, historyMessages')
        /\ ~ Confirms("clearPDF") => IsPrefix(pdfMessages, pdfMessages')
        /\ (lastEvent'.op = "sendMessage" /\ lastEvent'.result = "dispatched")
           => ThreadAfter(currentMode) =
                 Append(Thread(currentMode), UserMessage(Trim(lastEvent'.arg))) ]_vars

\* C24 witness: the same text was sent twice and the thread holds it twice.
C24_SameTextTwiceWitness ==
    /\ lastEvent.op = "sendMessage"
    /\ lastEvent.result = "dispatched"
    /\ \E i, j \in 1 .. Len(historyMessages) :
          /\ i < j
          /\ j = Len(historyMessages)
          /\ historyMessages[i] = historyMessages[j]
          /\ historyMessages[j].sender = "user"

\* C25: no retries: a request is issued only by an accepted send, one per
\* send, and the handling of a response, failures included, ends the request
\* and issues none.
C25_NoRetry ==
    [][ /\ Len(requests') > Len(requests)
           => /\ lastEvent'.op = "sendMessage"
              /\ lastEvent'.result = "dispatched"
              /\ Len(requests') = Len(requests) + 1
        /\ lastEvent'.op = "response"
           => /\ Len(requests') = Len(requests) - 1
              /\ \A i \in 1 .. Len(requests') : \E j \in 1 .. Len(requests) :
                    requests'[i] = requests[j] ]_vars

\* C25 witness: a request has failed and none is outstanding.
C25_FailedWitness ==
    /\ lastEvent.op = "response"
    /\ lastEvent.result \in { "transportFailure", "backendFailure", "nullBody", "answerMissing" }
    /\ requests = << >>
    /\ chatMessages # << >>

\* C26: every request to the pdf endpoint carries at least one file part,
\* one per file staged when it was dispatched, numbered pdf_0 .. pdf_N-1 in
\* staging order; and no later step (a removal, a clear) changes the parts of
\* a request that is outstanding.
C26_PdfParts ==
    /\ [](\A i \in 1 .. Len(requests) :
            requests[i].endpoint = "/api/pdf-rag-chat"
            => /\ Len(requests[i].parts) >= 1
               /\ \A k \in 1 .. Len(requests[i].parts) : requests[i].parts[k].part = k - 1)
    /\ [][ /\ (/\ lastEvent'.op = "sendMessage" /\ lastEvent'.result = "dispatched"
                /\ currentMode = "pdf")
               => LET r == requests'[Len(requests')] IN
                  /\ r.endpoint = "/api/pdf-rag-chat"
                  /\ Len(r.parts) = Len(uploadedPDFs)
                  /\ \A k \in 1 .. Len(uploadedPDFs) :
                        r.parts[k] = [ part |-> k - 1, name |-> uploadedPDFs[k].name,
                                       size |-> uploadedPDFs[k].size ]
            /\ Len(requests') >= Len(requests)
               => \A i \in 1 .. Len(requests) :
                     /\ requests'[i].parts = requests[i].parts
                     /\ requests'[i].endpoint = requests[i].endpoint ]_vars

\* C26 witness: a request to the pdf endpoint is outstanding with its part
\* while no file is staged any more.
C26_RemovedAfterDispatchWitness ==
    /\ Len(requests) = 1
    /\ requests[1].endpoint = "/api/pdf-rag-chat"
    /\ Len(requests[1].parts) >= 1
    /\ uploadedPDFs = << >>

\* C27: removePDFFile(id) removes exactly the one staged file with that id
\* and keeps the others in their order; when no staged file has that id the
\* staged files are unchanged and no toast is shown.
C27_RemoveExactlyOne ==
    [][ lastEvent'.op = "removePDFFile"
        => LET id == lastEvent'.arg[1]
               matching == { k \in 1 .. Len(uploadedPDFs) : uploadedPDFs[k].id = id }
           IN  IF matching = { }
               THEN uploadedPDFs' = uploadedPDFs /\ toastLog' = << >>
               ELSE \E k \in matching :
                      /\ Len(uploadedPDFs') = Len(uploadedPDFs) - 1
                      /\ \A j \in 1 .. (k - 1) : uploadedPDFs'[j] = uploadedPDFs[j]
                      /\ \A j \in k .. Len(uploadedPDFs') :
                            uploadedPDFs'[j] = uploadedPDFs[j + 1]
                      /\ toastLog' = << [ kind |-> "removed", type |-> "success" ] >> ]_vars

\* C27 witness: of two staged files the first was removed and the second is
\* the one staged.
C27_FirstRemovedWitness ==
    /\ lastEvent.op = "removePDFFile"
    /\ lastEvent.arg = << 1 >>
    /\ toastLog = << [ kind |-> "removed", type |-> "success" ] >>
    /\ Len(uploadedPDFs) = 1
    /\ uploadedPDFs[1].id = 2

\* C28: responses are handled in the order of dispatch: when a send is
\* accepted, the response of every send accepted before it has been handled
\* (no request is outstanding), and a response step handles the one request
\* outstanding.
C28_ResponsesInDispatchOrder ==
    [][ /\ (lastEvent'.op = "sendMessage" /\ lastEvent'.result = "dispatched")
           => requests = << >> /\ Len(requests') = 1
        /\ lastEvent'.op = "response"
           => Len(requests) = 1 /\ requests' = << >> ]_vars

\* C28 witness: a second send was accepted after the response of the first
\* was handled.
C28_SecondDispatchWitness ==
    /\ lastEvent.op = "sendMessage"
    /\ lastEvent.result = "dispatched"
    /\ Len(requests) = 1
    /\ requests[1].historyAtSend # << >>
    /\ ~ requests[1].switched

\* How far the timers have brought an element.
StageRank(stage) ==
    CASE stage = "created" -> 1
      [] stage = "visible" -> 2
      [] stage = "hidden" -> 3
      [] stage = "removed" -> 4

\* C29: each showToast call creates its own element, which goes through the
\* stages created, visible, hidden, removed in that order, one stage at a
\* time, and is eventually removed; toasts coexist, and a step of the
\* lifecycle of one toast changes the stage of no other: a call adds one
\* element in the stage created and touches none, a timer moves one element.
C29_ToastLifecycle ==
    /\ [][ /\ Len(toastElements') \in { Len(toastElements), Len(toastElements) + 1 }
           /\ \A k \in 1 .. Len(toastElements) :
                 /\ toastElements'[k].type = toastElements[k].type
                 /\ StageRank(toastElements'[k].stage)
                       \in { StageRank(toastElements[k].stage),
                             StageRank(toastElements[k].stage) + 1 }
           /\ Cardinality({ k \in 1 .. Len(toastElements) :
                               toastElements'[k] # toastElements[k] }) <= 1
           /\ Len(toastElements') = Len(toastElements) + 1
              => /\ toastElements'[Len(toastElements')].stage = "created"
                 /\ SubSeq(toastElements', 1, Len(toastElements)) = toastElements ]_vars
    /\ \A k \in 1 .. MaxToasts :
          (Len(toastElements) >= k)
            ~> (Len(toastElements) >= k /\ toastElements[k].stage = "removed")

\* C29 witness: three toasts coexist, each in another stage.
C29_CoexistWitness ==
    /\ Len(toastElements) = 3
    /\ toastElements[1].stage = "hidden"
    /\ toastElements[2].stage = "visible"
    /\ toastElements[3].stage = "created"

\* C30: formatMessage resolves the bold markers first, then the italic
\* markers, then the newlines: for "**bold** and *italic*\nline2" the result
\* is a bold span around "bold", " and ", an italic span around "italic", and
\* a line break right before "line2"; in general a text that begins with
\* **w** (w free of markers and newlines) begins with the bold span of w in
\* the result, and every newline, and nothing else, has become a line break.
C30_FormatPipeline ==
    formatOutput # Null
    => /\ formatInput = ExampleText
          => formatOutput = << "<strong>", "bold", "</strong>", " and ",
                               "<em>", "italic", "</em>", "<br>", "line2" >>
       /\ \A n \in 0 .. (Len(formatInput) - 4) :
             (/\ formatInput[1] = "*" /\ formatInput[2] = "*"
              /\ formatInput[n + 3] = "*" /\ formatInput[n + 4] = "*"
              /\ \A m \in 3 .. (n + 2) : formatInput[m] \notin { "*", "\n" })
             => /\ Len(formatOutput) >= n + 2
                /\ SubSeq(formatOutput, 1, n + 2) =
                      << "<strong>" >> \o SubSeq(formatInput, 3, n + 2) \o << "</strong>" >>
       /\ \A k \in 1 .. Len(formatOutput) : formatOutput[k] # "\n"
       /\ Cardinality({ k \in 1 .. Len(formatOutput) : formatOutput[k] = "<br>" })
             = Cardinality({ k \in 1 .. Len(formatInput) : formatInput[k] = "\n" })

\* C30 witness: formatMessage was applied to the text of the example.
C30_ExampleWitness ==
    /\ formatInput = ExampleText
    /\ formatOutput # Null
    /\ Len(formatOutput) = 9

\* The host of a URL with a "www." in front of it taken off.
StripLeadingWww(host) ==
    IF Len(host) >= 4 /\ SubSeq(host, 1, 4) = "www." THEN SubSeq(host, 5, Len(host))
    ELSE host

\* C31 (as claimed): a numbered reference block is rendered exactly for AI
\* messages with a non-empty sourceUrls list, with one entry per URL in order
\* carrying its 1-based index and a label equal to the host of the URL with
\* only a leading "www." stripped (a "www." further in the host is kept), or
\* the placeholder when the URL does not parse.
C31_ReferenceBlock ==
    refOutput.rendered
    => LET urls == refInput.sourceUrls
           shown == /\ refInput.sender = "ai"
                    /\ urls \notin { Null, Undefined }
                    /\ Len(urls) > 0
       IN  IF shown
           THEN /\ Len(refOutput.refs) = Len(urls)
                /\ \A k \in 1 .. Len(urls) :
                      /\ refOutput.refs[k].index = k
                      /\ refOutput.refs[k].url = urls[k]
                      /\ refOutput.refs[k].label =
                            IF UrlThrows(urls[k]) THEN Placeholder
                            ELSE StripLeadingWww(Hostname(urls[k]))
           ELSE refOutput.refs = << >>

\* The handlers that neither dispatch a request nor complete one.
LocalOps ==
    { "switchMode", "handleFileSelect", "drop", "removePDFFile", "clearHistoryMode",
      "clearPDFChat", "confirmAction", "hideConfirmation", "toggleMenu", "documentClick" }

\* What the network holds of the suspended calls.
InFlight(reqs) ==
    [ k \in 1 .. Len(reqs) |->
        [ endpoint |-> reqs[k].endpoint, message |-> reqs[k].message,
          parts |-> reqs[k].parts, stage |-> reqs[k].stage ] ]

\* C32: there is no cancellation and only dispatch and completion touch the
\* guard: a mode switch, an upload or removal of a file, a request for
\* confirmation, its confirmation or cancellation (each with the toasts it
\* shows) and the menu leave isTyping and the outstanding request as they
\* are, isTyping changes only in a send or in the handling of a response, and
\* a request outstanding when one of them has run is still completed and its
\* response handled.
C32_NoCancellation ==
    /\ [][ /\ lastEvent'.op \in LocalOps
              => /\ isTyping' = isTyping
                 /\ InFlight(requests') = InFlight(requests)
           /\ isTyping' # isTyping => lastEvent'.op \in { "sendMessage", "response" }
           /\ Len(requests') < Len(requests) => lastEvent'.op = "response" ]_vars
    /\ (Len(requests) = 1 /\ lastEvent.op \in LocalOps)
          ~> (Len(requests) = 0 /\ lastEvent.op = "response")

\* C32 witness: a clear was confirmed while a request is outstanding, and the
\* request is still outstanding under the raised guard.
C32_ClearDuringRequestWitness ==
    /\ Len(requests) = 1
    /\ requests[1].cleared
    /\ isTyping
    /\ lastEvent.op = "confirmAction"
    /\ lastEvent.result # "null"

\* The step is a confirmAction that found the given action in the slot.
ConfirmStep(action) ==
    lastEvent'.op = "confirmAction" /\ lastEvent'.result = action

\* C33: messages are destroyed only through the confirmation gate: the
\* history thread gets shorter only in a confirmAction step whose pending
\* action is the history clear, the pdf thread only in one whose pending
\* action is the PDF clear, and the staged files shrink only by the one file
\* of a removePDFFile or, as a whole, in a confirmAction step whose pending
\* action is the PDF clear; a request for confirmation alone and a
\* cancellation change no thread, no rendered message and no staged file.
C33_DestroyedOnlyByConfirm ==
    [][ /\ Len(historyMessages') < Len(historyMessages) => ConfirmStep("clearHistory")
        /\ Len(pdfMessages') < Len(pdfMessages) => ConfirmStep("clearPDF")
        /\ Len(uploadedPDFs') < Len(uploadedPDFs)
           => \/ ConfirmStep("clearPDF") /\ uploadedPDFs' = << >>
              \/ /\ lastEvent'.op = "removePDFFile"
                 /\ Len(uploadedPDFs') = Len(uploadedPDFs) - 1
        /\ lastEvent'.op \in { "clearHistoryMode", "clearPDFChat", "hideConfirmation" }
           => UNCHANGED << historyMessages, pdfMessages, uploadedPDFs, chatMessages >> ]_vars

\* C33 witness: a request for the history clear was cancelled with a message
\* in the history thread, which is still there.
C33_CancelKeepsThreadWitness ==
    /\ lastEvent.op = "hideConfirmation"
    /\ lastEvent.result = "clearHistory"
    /\ Len(historyMessages) > 0
    /\ Len(chatMessages) > 0

\* What a message node shows: the text, the sender and the reference block.
Shown(nodes) ==
    [ k \in 1 .. Len(nodes) |->
        [ content |-> nodes[k].content, sender |-> nodes[k].sender,
          refs |-> nodes[k].refs ] ]

\* The same for the stored messages of a thread.
ShownOfThread(msgs) ==
    Shown([ k \in 1 .. Len(msgs) |->
              MessageNode("history", msgs[k].content, msgs[k].sender, msgs[k].sourceUrls) ])

\* C34 (as claimed): in every reachable state (with one of the two modes of
\* the page active) the sequence of message nodes in the rendered view equals
\* the stored messages of the thread of the current mode, so that a re-render
\* makes no displayed message disappear, a fallback message included.
C34_ViewEqualsThread ==
    currentMode \in { "history", "pdf" }
    => Shown(MessageNodes(chatMessages)) = ShownOfThread(Thread(currentMode))

\* C35 (as claimed): in every thread, every stored AI message is immediately
\* preceded by a stored user message of the same thread.
C35_AnswerFollowsQuestion ==
    \A mode \in { "history", "pdf" } :
        \A k \in 1 .. Len(Thread(mode)) :
            Thread(mode)[k].sender = "ai"
            => k > 1 /\ Thread(mode)[k - 1].sender = "user"

\* The step is an accepted send in the given mode.
AcceptedSend(mode) ==
    lastEvent'.op = "sendMessage" /\ lastEvent'.result = "dispatched" /\ currentMode = mode

\* C36 (as claimed): after a confirmed clear of a thread, that thread stays
\* empty until the next accepted send in that mode, even when the response of
\* a request dispatched before the clear arrives afterwards: the step that
\* follows the confirmed clear leaves the thread empty unless it is such a
\* send (here with one of the two modes of the page active).
C36_ClearedStaysEmpty ==
    [][ (/\ currentMode \in { "history", "pdf" }
         /\ lastEvent.op = "confirmAction"
         /\ lastEvent.result \in { "clearHistory", "clearPDF" })
        => LET mode == IF lastEvent.result = "clearHistory" THEN "history" ELSE "pdf"
           IN  AcceptedSend(mode) \/ ThreadAfter(mode) = << >> ]_vars

\* C37 (as claimed): the typing indicator is present in the rendered view
\* exactly when isTyping is true, in every reachable state.
C37_IndicatorIffTyping ==
    isTyping <=> (\E k \in 1 .. Len(chatMessages) : chatMessages[k].kind = "typing")

\* C38: the guard is exact: in every state between two events isTyping is
\* true if and only if exactly one dispatched request has not yet settled
\* (its fetch, or the reading of its body, is pending); it is never true with
\* no request outstanding and never false while one is.
C38_GuardExact ==
    /\ isTyping <=> Len(requests) = 1
    /\ ~ isTyping <=> Len(requests) = 0
    /\ \A k \in 1 .. Len(requests) : requests[k].stage \in { "fetch", "json" }

\* C38 witness: the body of the response is being read, after a mode switch
\* and a confirmed clear during the request, and the guard is still raised.
C38_BodyPendingWitness ==
    /\ Len(requests) = 1
    /\ requests[1].stage = "json"
    /\ requests[1].switched
    /\ requests[1].cleared
    /\ isTyping

\* C39: the click listener of the document is registered exactly when
\* menuOpen is true, after any sequence of toggleMenu, clicks inside and
\* outside the menu, switchMode and the closeMenus of a confirmed clear; the
\* same function is registered each time, so that it is never registered
\* more than once.
C39_ListenerIffMenuOpen ==
    /\ clickListener \in BOOLEAN
    /\ clickListener <=> menuOpen

\* C39 witness: a click outside has just closed the open menu.
C39_ClosedByOutsideClickWitness ==
    /\ lastEvent.op = "documentClick"
    /\ ~ menuOpen
    /\ ~ clickListener

====
